---- MODULE Spec2Model ----
(***************************************************************************)
(* Model of the video service (src/video-service/app.py): the stream       *)
(* session table (StreamManager), the per-stream object trackers           *)
(* (ObjectTracker, TrackedObject) owned by AdvancedYOLOProcessor, and the  *)
(* Flask request handlers that drive them.                                 *)
(*                                                                         *)
(* Conventions.  Floats are modelled exactly: a confidence is an integer   *)
(* number of hundredths, an IoU is a fraction <<num, den>> with den > 0.   *)
(* A Python exception is a value: an operator that models a function      *)
(* returns a record whose field `raised` tells whether the call raised,    *)
(* together with the state the call left behind.  The detector (YOLO), the *)
(* image decoding, Kafka, Redis, the database and the Prometheus metrics   *)
(* are outside the model; the detector's output is an input of the frame   *)
(* handlers.  The wall-clock fields of a session record (start_time) and   *)
(* of the performance statistics (processing_times) are left out: no       *)
(* branch of the code reads them.                                          *)
(***************************************************************************)
EXTENDS Integers, Sequences, FiniteSets, TLC

VARIABLES
    active_streams,     \* StreamManager.active_streams: stream id -> session record
    trackers,           \* AdvancedYOLOProcessor.trackers: stream id -> ObjectTracker
    class_counts,       \* AdvancedYOLOProcessor.class_counts
    performance_stats,  \* AdvancedYOLOProcessor.performance_stats
    now,                \* int(time.time() * 1000), the clock in milliseconds
    handlers,           \* position of each request-handling thread
    response,           \* the last request and the response the service gave
    started,            \* history: the stream ids a start request has admitted
    fed,                \* history: the stream ids fed a frame while their session was active
    retry,              \* history: a refused start, and what became of it
    run,                \* history: per stream, the latest frames that showed one object
    sequential,         \* history: the trackers the frames make when applied one by one
    call                \* the last call of a helper function: arguments and result

vars == <<active_streams, trackers, class_counts, performance_stats, now,
          handlers, response, started, fed, retry, run, sequential, call>>

(***************************************************************************)
(* Program constants                                                       *)
(***************************************************************************)
MAX_CONCURRENT_STREAMS == 5
max_age == 30
min_hits == 3
HISTORY_MAXLEN == 30
TRAJECTORY_LEN == 10

(***************************************************************************)
(* Bounds of the model                                                     *)
(***************************************************************************)
MaxFrames == 3        \* frames fed to one tracker
MaxDetections == 2    \* detections the detector returns for one frame
MaxBatch == 2         \* frames of one batch request
MaxClock == 1         \* clock ticks
NumThreads == 2       \* request threads handled concurrently

StreamIds == {"s1", "s2", "s3", "s4", "s5", "s6"}
SourceTypes == {"webcam", "rtmp"}
Threads == 1..NumThreads

\* Stream ids of the frame-processing specifications: "s1" and "s2" can be
\* started and stopped, "default" is what analyze_frame uses when the request
\* names no stream, "batch" is batch_process's default.
PipelineStreams == {"s1", "s2"}
FrameStreams == {"s1", "default"}
BatchNames == <<"batch_batch_0", "batch_batch_1", "batch_batch_2", "batch_batch_3">>

\* Detector outputs: box (0,0,10,10), a box that overlaps it with IoU 25/175
\* (at most 0.3), and a box that overlaps it with IoU 90/110 (above 0.3).
DetA == [bbox |-> <<0, 0, 10, 10>>, confidence |-> 90, class_id |-> 39, class_name |-> "bottle"]
DetB == [bbox |-> <<5, 5, 15, 15>>, confidence |-> 80, class_id |-> 0, class_name |-> "person"]
DetC == [bbox |-> <<1, 0, 11, 10>>, confidence |-> 70, class_id |-> 39, class_name |-> "bottle"]
Detections == {DetA, DetB, DetC}
ClassNames == {d.class_name : d \in Detections}

\* The sequences over S of length at most n
SeqsUpTo(S, n) == UNION {[1..k -> S] : k \in 0..n}

\* What the detector may return for one frame.
DetectionLists == SeqsUpTo(Detections, MaxDetections)
\* The frames of the session-level specification carry at most one detection.
SimpleDetectionLists == {<<>>, <<DetA>>}

Max(a, b) == IF a >= b THEN a ELSE b
Min(a, b) == IF a <= b THEN a ELSE b

(***************************************************************************)
(* ObjectTracker._calculate_iou: the IoU as a fraction <<num, den>>.       *)
(***************************************************************************)
ZeroIou == <<0, 1>>

\* (_calculate_iou_sum_of_areas: the union taken as the sum of the two areas,
\* the intersection not subtracted)
_calculate_iou_sum_of_areas(box1, box2) ==
    LET xi1 == Max(box1[1], box2[1])
        yi1 == Max(box1[2], box2[2])
        xi2 == Min(box1[3], box2[3])
        yi2 == Min(box1[4], box2[4])
        intersection == (xi2 - xi1) * (yi2 - yi1)
        union == (box1[3] - box1[1]) * (box1[4] - box1[2])
                   + (box2[3] - box2[1]) * (box2[4] - box2[2])
    IN  IF xi2 <= xi1 \/ yi2 <= yi1 THEN ZeroIou
        ELSE IF union > 0 THEN <<intersection, union>> ELSE ZeroIou

_calculate_iou(box1, box2) ==
    LET x1 == box1[1]   y1 == box1[2]   x2 == box1[3]   y2 == box1[4]
        x1_t == box2[1] y1_t == box2[2] x2_t == box2[3] y2_t == box2[4]
        xi1 == Max(x1, x1_t)
        yi1 == Max(y1, y1_t)
        xi2 == Min(x2, x2_t)
        yi2 == Min(y2, y2_t)
        intersection == (xi2 - xi1) * (yi2 - yi1)
        box1_area == (x2 - x1) * (y2 - y1)
        box2_area == (x2_t - x1_t) * (y2_t - y1_t)
        union == box1_area + box2_area - intersection
    IN  IF xi2 <= xi1 \/ yi2 <= yi1 THEN ZeroIou
        ELSE IF union > 0 THEN <<intersection, union>> ELSE ZeroIou

\* a > b for two fractions with positive denominators
IouGreater(a, b) == a[1] * b[2] > b[1] * a[2]
\* iou > 0.3
AboveMatchThreshold(iou) == 10 * iou[1] > 3 * iou[2]

(***************************************************************************)
(* TrackedObject                                                           *)
(***************************************************************************)
\* Variant: a deque without maxlen
DequeAppendUnbounded(history, x) == Append(history, x)

\* deque(maxlen=30).append
DequeAppend(history, x) ==
    LET h == Append(history, x)
    IN  IF Len(h) > HISTORY_MAXLEN THEN SubSeq(h, 2, Len(h)) ELSE h

\* TrackedObject.__init__(detection, frame_count) at clock value t
NewTrackedObject(detection, frame_count, t) ==
    [id |-> t,
     bbox |-> detection.bbox,
     class_name |-> detection.class_name,
     confidence |-> detection.confidence,
     first_seen |-> frame_count,
     last_seen |-> frame_count,
     hits |-> 1,
     age |-> 0,
     history |-> <<detection>>]

\* TrackedObject.update(detection)
TrackedObjectUpdate(obj, detection) ==
    [obj EXCEPT !.bbox = detection.bbox,
                !.confidence = detection.confidence,
                !.last_seen = obj.last_seen + 1,
                !.hits = obj.hits + 1,
                !.age = 0,
                !.history = DequeAppend(obj.history, detection)]

\* TrackedObject.to_dict
to_dict(obj) ==
    [id |-> obj.id,
     bbox |-> obj.bbox,
     class_name |-> obj.class_name,
     confidence |-> obj.confidence,
     first_seen |-> obj.first_seen,
     last_seen |-> obj.last_seen,
     hits |-> obj.hits,
     trajectory |-> SubSeq(obj.history,
                           Max(1, Len(obj.history) - TRAJECTORY_LEN + 1),
                           Len(obj.history))]

(***************************************************************************)
(* ObjectTracker                                                           *)
(***************************************************************************)
\* ObjectTracker.__init__
NewObjectTracker == [trackers |-> <<>>, frame_count |-> 0]

\* The expression tracker['bbox'] of line 112.  TrackedObject defines no
\* __getitem__, so subscripting an instance raises TypeError.
\* (TrackerBboxByAttribute: the attribute read tracker.bbox in its place)
TrackerBboxByAttribute(obj) == [raised |-> FALSE, value |-> obj.bbox]
TrackerBbox(obj) == [raised |-> TRUE, value |-> <<>>]

\* Lines 111-115: the scan of self.trackers for one detection, from position
\* i on.  best_match is a position in the list, 0 for None.
RECURSIVE FindBestMatch(_, _, _, _, _)
\* Lines 113-115, given the iou line 112 computed
KeepBest(detection, objs, i, best_match, best_iou, iou) ==
    IF IouGreater(iou, best_iou) /\ AboveMatchThreshold(iou)
    THEN FindBestMatch(detection, objs, i + 1, i, iou)
    ELSE FindBestMatch(detection, objs, i + 1, best_match, best_iou)

\* Line 112, given the outcome of tracker['bbox']
ScanTracker(detection, objs, i, best_match, best_iou, item) ==
    IF item.raised THEN [raised |-> TRUE, best_match |-> 0]
    ELSE KeepBest(detection, objs, i, best_match, best_iou,
                  _calculate_iou(detection.bbox, item.value))

FindBestMatch(detection, objs, i, best_match, best_iou) ==
    IF i > Len(objs) THEN [raised |-> FALSE, best_match |-> best_match]
    ELSE ScanTracker(detection, objs, i, best_match, best_iou, TrackerBbox(objs[i]))

\* Lines 107-124: the loop over the detections, from detection k on.
\* tracked_objects holds positions in objs (the list holds references).
RECURSIVE AssociateLoop(_, _, _, _, _, _)
\* Lines 117-124 for detection k, given the outcome of the scan
Associate(objs, detections, k, tracked_objects, frame_count, t, scan) ==
    IF scan.raised
    THEN [raised |-> TRUE, trackers |-> objs, tracked_objects |-> tracked_objects]
    ELSE IF scan.best_match # 0
    THEN AssociateLoop(
             [objs EXCEPT ![scan.best_match] =
                  TrackedObjectUpdate(objs[scan.best_match], detections[k])],
             detections, k + 1,
             Append(tracked_objects, scan.best_match), frame_count, t)
    ELSE AssociateLoop(
             Append(objs, NewTrackedObject(detections[k], frame_count, t)),
             detections, k + 1,
             Append(tracked_objects, Len(objs) + 1), frame_count, t)

AssociateLoop(objs, detections, k, tracked_objects, frame_count, t) ==
    IF k > Len(detections)
    THEN [raised |-> FALSE, trackers |-> objs, tracked_objects |-> tracked_objects]
    ELSE Associate(objs, detections, k, tracked_objects, frame_count, t,
                   FindBestMatch(detections[k], objs, 1, 0, ZeroIou))

\* [t for t in self.trackers if t.age < self.max_age]
RECURSIVE RemoveOld(_)
RemoveOld(objs) ==
    IF objs = <<>> THEN <<>>
    ELSE IF Head(objs).age < max_age
         THEN <<Head(objs)>> \o RemoveOld(Tail(objs))
         ELSE RemoveOld(Tail(objs))

\* [t.to_dict() for t in tracked_objects if t.hits >= self.min_hits]
RECURSIVE ConfirmedDicts(_, _)
ConfirmedDicts(objs, tracked_objects) ==
    IF tracked_objects = <<>> THEN <<>>
    ELSE LET obj == objs[Head(tracked_objects)]
             rest == ConfirmedDicts(objs, Tail(tracked_objects))
         IN  IF obj.hits >= min_hits THEN <<to_dict(obj)>> \o rest ELSE rest

\* Lines 126-129, given the outcome of the loop; an exception of the loop
\* leaves update with what the loop had done so far.
UpdateOutcome(frame_count, loop) ==
    IF loop.raised
    THEN [raised |-> TRUE,
          tracker |-> [trackers |-> loop.trackers, frame_count |-> frame_count],
          result |-> <<>>]
    ELSE [raised |-> FALSE,
          tracker |-> [trackers |-> RemoveOld(loop.trackers),
                       frame_count |-> frame_count],
          result |-> ConfirmedDicts(loop.trackers, loop.tracked_objects)]

\* ObjectTracker.update(detections) at clock value t: the tracker it leaves,
\* whether it raised, and what it returned.
update(tracker, detections, t) ==
    UpdateOutcome(tracker.frame_count + 1,
                  AssociateLoop(tracker.trackers, detections, 1, <<>>,
                                tracker.frame_count + 1, t))

(***************************************************************************)
(* AdvancedYOLOProcessor.process_frame                                     *)
(***************************************************************************)
\* Lines 258-260: self.class_counts[detection['class_name']] += 1 for every
\* detection the detector returned (a defaultdict(int): absent keys read 0).
RECURSIVE CountClasses(_, _)
CountClasses(counts, detections) ==
    IF detections = <<>> THEN counts
    ELSE CountClasses([counts EXCEPT ![Head(detections).class_name] = @ + 1],
                      Tail(detections))

\* Lines 263-264: look the stream's tracker up, creating it when absent.
TrackerLookup(trks, stream_id) ==
    IF stream_id \in DOMAIN trks THEN trks
    ELSE [k \in DOMAIN trks \cup {stream_id} |->
             IF k = stream_id THEN NewObjectTracker ELSE trks[k]]

\* Lines 266-292, given the outcome of update(detections) on the stream's
\* tracker.  An exception of update leaves through the except clause of line
\* 294, which re-raises it.
FrameOutcome(proc, stream_id, detections, u) ==
    IF u.raised
    THEN [raised |-> TRUE,
          proc |-> [trackers |-> [TrackerLookup(proc.trackers, stream_id)
                                     EXCEPT ![stream_id] = u.tracker],
                    class_counts |-> CountClasses(proc.class_counts, detections),
                    performance_stats |-> proc.performance_stats],
          tracked_objects |-> <<>>]
    ELSE [raised |-> FALSE,
          proc |-> [trackers |-> [TrackerLookup(proc.trackers, stream_id)
                                     EXCEPT ![stream_id] = u.tracker],
                    class_counts |-> CountClasses(proc.class_counts, detections),
                    performance_stats |->
                        [total_frames |-> proc.performance_stats.total_frames + 1,
                         total_detections |->
                             proc.performance_stats.total_detections + Len(detections)]],
          tracked_objects |-> u.result]

\* process_frame(frame, stream_id) on the processor state proc, the detector
\* returning `detections`, at clock value t.
process_frame(proc, stream_id, detections, t) ==
    FrameOutcome(proc, stream_id, detections,
                 update(TrackerLookup(proc.trackers, stream_id)[stream_id],
                        detections, t))

Processor == [trackers |-> trackers, class_counts |-> class_counts,
              performance_stats |-> performance_stats]

FrameCount(trks, stream_id) ==
    IF stream_id \in DOMAIN trks THEN trks[stream_id].frame_count ELSE 0

(***************************************************************************)
(* AdvancedYOLOProcessor._match_brand_colors.  A colour is a triple of     *)
(* channel values 0..255.  A distance sqrt(n) is held as its square n.  A  *)
(* similarity is a real number 1 - sqrt(n / MaxDistance2) with n in        *)
(* 0..MaxDistance2, held exactly as that n: n = 0 is the similarity 1.0,   *)
(* n = MaxDistance2 is 0.0, and the larger n the smaller the similarity.   *)
(***************************************************************************)
\* (255 * np.sqrt(3)) squared
MaxDistance2 == 3 * 255 * 255

SimOne == 0
SimZero == MaxDistance2
\* a <= b, a < b and max(a, b) for two similarities
SimLeq(a, b) == a >= b
SimLess(a, b) == a > b
SimMax(a, b) == IF SimLeq(a, b) THEN b ELSE a

\* Line 343: sum((a - b) ** 2 for a, b in zip(img_color, brand_color)), the
\* square of `distance`
Distance2(img_color, brand_color) ==
    (img_color[1] - brand_color[1]) * (img_color[1] - brand_color[1])
      + (img_color[2] - brand_color[2]) * (img_color[2] - brand_color[2])
      + (img_color[3] - brand_color[3]) * (img_color[3] - brand_color[3])

\* Line 344: max(0, 1 - distance / (255 * np.sqrt(3))); the difference is
\* positive exactly when distance is below 255 * sqrt(3)
Similarity(img_color, brand_color) ==
    IF Distance2(img_color, brand_color) < MaxDistance2
    THEN Distance2(img_color, brand_color)
    ELSE SimZero

\* Lines 341-345: the two nested loops from the pair (i, j) on
RECURSIVE MatchLoop(_, _, _, _, _)
MatchLoop(image_colors, brand_colors, i, j, max_similarity) ==
    IF i > Len(image_colors) THEN max_similarity
    ELSE IF j > Len(brand_colors)
         THEN MatchLoop(image_colors, brand_colors, i + 1, 1, max_similarity)
         ELSE MatchLoop(image_colors, brand_colors, i, j + 1,
                        SimMax(max_similarity,
                               Similarity(image_colors[i], brand_colors[j])))

\* (_match_brand_colors_by_position: the colours paired by position, as
\* zip(image_colors, brand_colors) would, instead of every pair)
RECURSIVE _match_brand_colors_by_position(_, _)
_match_brand_colors_by_position(image_colors, brand_colors) ==
    IF image_colors = <<>> \/ brand_colors = <<>> THEN SimZero
    ELSE SimMax(Similarity(Head(image_colors), Head(brand_colors)),
                _match_brand_colors_by_position(Tail(image_colors), Tail(brand_colors)))

_match_brand_colors(image_colors, brand_colors) ==
    MatchLoop(image_colors, brand_colors, 1, 1, SimZero)

(***************************************************************************)
(* StreamManager                                                           *)
(***************************************************************************)
NewSession(source_type) ==
    [source_type |-> source_type, frame_count |-> 0, status |-> "active"]

\* Line 420: the admission test of add_stream
\* (AtCapacityOffByOne: the test written with > instead of >=)
AtCapacityOffByOne(streams) == Cardinality(DOMAIN streams) > MAX_CONCURRENT_STREAMS
AtCapacity(streams) == Cardinality(DOMAIN streams) >= MAX_CONCURRENT_STREAMS

\* Variant: the session of an id already in the table is kept (setdefault)
InsertStreamKeepsExisting(streams, stream_id, source_type) ==
    [k \in DOMAIN streams \cup {stream_id} |->
        IF k \in DOMAIN streams THEN streams[k] ELSE NewSession(source_type)]

\* Lines 423-428: self.active_streams[stream_id] = {...}
InsertStream(streams, stream_id, source_type) ==
    [k \in DOMAIN streams \cup {stream_id} |->
        IF k = stream_id THEN NewSession(source_type) ELSE streams[k]]

\* StreamManager.add_stream
add_stream(streams, stream_id, source_type) ==
    IF AtCapacity(streams)
    THEN [raised |-> TRUE, streams |-> streams]
    ELSE [raised |-> FALSE, streams |-> InsertStream(streams, stream_id, source_type)]

\* Line 436: del self.active_streams[stream_id]; KeyError when the key is absent
DeleteStream(streams, stream_id) ==
    IF stream_id \in DOMAIN streams
    THEN [raised |-> FALSE,
          streams |-> [k \in DOMAIN streams \ {stream_id} |-> streams[k]]]
    ELSE [raised |-> TRUE, streams |-> streams]

\* StreamManager.remove_stream
\* (remove_stream_unguarded: the deletion without the test of line 435;
\* remove_stream_marks_stopped: the session marked stopped and kept in the table)
remove_stream_unguarded(streams, stream_id) == DeleteStream(streams, stream_id)
remove_stream_marks_stopped(streams, stream_id) ==
    IF stream_id \in DOMAIN streams
    THEN [raised |-> FALSE,
          streams |-> [streams EXCEPT ![stream_id].status = "stopped"]]
    ELSE [raised |-> FALSE, streams |-> streams]
remove_stream(streams, stream_id) ==
    IF stream_id \in DOMAIN streams
    THEN DeleteStream(streams, stream_id)
    ELSE [raised |-> FALSE, streams |-> streams]

(***************************************************************************)
(* The state after construction                                            *)
(***************************************************************************)
IdleHandler == [pc |-> "idle", stream_id |-> "", source_type |-> ""]
NoResponse == [op |-> "none", stream_id |-> "", status |-> ""]
NoRetry == [phase |-> "none", stream_id |-> ""]
NoRun == [n |-> 0, bbox |-> <<>>]
NoCall == [fn |-> "none"]

Init ==
    /\ active_streams = <<>>
    /\ trackers = <<>>
    /\ class_counts = [c \in ClassNames |-> 0]
    /\ performance_stats = [total_frames |-> 0, total_detections |-> 0]
    /\ now = 0
    /\ handlers = [t \in Threads |-> IdleHandler]
    /\ response = NoResponse
    /\ started = {}
    /\ fed = {}
    /\ retry = NoRetry
    /\ run = <<>>
    /\ sequential = <<>>
    /\ call = NoCall

(***************************************************************************)
(* Request handlers, each run to completion                                *)
(***************************************************************************)
\* History of a refused start: "refused" when a start request was refused,
\* "freed" once a session that was active has been stopped after the refusal,
\* "admitted" when the refused stream id was then started again and admitted.
RetryAfterStart(stream_id, raised) ==
    IF raised THEN [phase |-> "refused", stream_id |-> stream_id]
    ELSE IF retry.phase = "freed" /\ retry.stream_id = stream_id
         THEN [phase |-> "admitted", stream_id |-> stream_id]
         ELSE NoRetry

RetryAfterStop(was_active) ==
    IF retry.phase = "refused" /\ was_active
    THEN [phase |-> "freed", stream_id |-> retry.stream_id]
    ELSE IF retry.phase = "admitted" THEN NoRetry ELSE retry

\* POST /api/video/stream/start with a non-empty stream_id (an empty one is
\* answered 400 before add_stream is called); an exception of add_stream is
\* answered 500 by the except clause of line 584.  History: was_active tells
\* whether the stream had a session when the request arrived.
start_stream(stream_id, source_type) ==
    LET r == add_stream(active_streams, stream_id, source_type)
    IN  /\ active_streams' = r.streams
        /\ response' = [op |-> "start", stream_id |-> stream_id,
                        status |-> IF r.raised THEN "error" ELSE "started",
                        source_type |-> source_type,
                        was_active |-> stream_id \in DOMAIN active_streams]
        /\ started' = IF r.raised THEN started ELSE started \cup {stream_id}
        /\ retry' = RetryAfterStart(stream_id, r.raised)
        /\ UNCHANGED <<trackers, class_counts, performance_stats, now, handlers, fed,
                       run, sequential, call>>

\* POST /api/video/stream/stop with a non-empty stream_id
stop_stream(stream_id) ==
    LET r == remove_stream(active_streams, stream_id)
    IN  /\ active_streams' = r.streams
        /\ response' = [op |-> "stop", stream_id |-> stream_id,
                        status |-> IF r.raised THEN "error" ELSE "stopped"]
        /\ retry' = RetryAfterStop(stream_id \in DOMAIN active_streams)
        /\ UNCHANGED <<trackers, class_counts, performance_stats, now, handlers,
                       started, fed, run, sequential, call>>

\* History of the frames of a stream that showed one object: n is the number
\* of latest frames in a row that carried exactly one detection, each after
\* the first overlapping the detection of the frame before it with IoU above
\* 0.3; bbox is the box of the last of them.
RunOf(stream_id) == IF stream_id \in DOMAIN run THEN run[stream_id] ELSE NoRun

RunNext(r, detections) ==
    IF Len(detections) # 1 THEN NoRun
    ELSE IF r.n >= 1 /\ AboveMatchThreshold(_calculate_iou(detections[1].bbox, r.bbox))
         THEN [n |-> r.n + 1, bbox |-> detections[1].bbox]
         ELSE [n |-> 1, bbox |-> detections[1].bbox]

RunAfter(stream_id, detections) ==
    [k \in DOMAIN run \cup {stream_id} |->
        IF k = stream_id THEN RunNext(RunOf(stream_id), detections) ELSE run[k]]

\* POST /api/video/analyze-frame with a decodable image, the detector
\* returning `detections`; an exception of process_frame is answered 500 by
\* the except clause of line 560.  `limit` bounds the frames fed to a tracker.
analyze_frame(stream_id, detections, limit) ==
    /\ FrameCount(trackers, stream_id) < limit
    /\ \E r \in {process_frame(Processor, stream_id, detections, now)} :
           /\ trackers' = r.proc.trackers
           /\ class_counts' = r.proc.class_counts
           /\ performance_stats' = r.proc.performance_stats
           /\ response' = [op |-> "analyze_frame", stream_id |-> stream_id,
                           status |-> IF r.raised THEN "error" ELSE "ok",
                           detector |-> "ok",
                           detections |-> detections,
                           tracked_objects |-> r.tracked_objects]
    /\ fed' = IF stream_id \in DOMAIN active_streams THEN fed \cup {stream_id} ELSE fed
    /\ run' = RunAfter(stream_id, detections)
    /\ UNCHANGED <<active_streams, now, handlers, started, retry, sequential, call>>

\* process_frame when the detector call of line 243 raises: no statement
\* after it runs, the except clause of line 294 logs and re-raises.
process_frame_detector_raises(proc, stream_id) ==
    [raised |-> TRUE, proc |-> proc, tracked_objects |-> <<>>]

\* POST /api/video/analyze-frame with a decodable image on which the detector
\* fails; the exception of process_frame is answered 500 (line 560).
analyze_frame_detector_fails(stream_id) ==
    /\ \E r \in {process_frame_detector_raises(Processor, stream_id)} :
           /\ trackers' = r.proc.trackers
           /\ class_counts' = r.proc.class_counts
           /\ performance_stats' = r.proc.performance_stats
           /\ response' = [op |-> "analyze_frame", stream_id |-> stream_id,
                           status |-> IF r.raised THEN "error" ELSE "ok",
                           detector |-> "failed",
                           detections |-> <<>>,
                           tracked_objects |-> r.tracked_objects]
    /\ UNCHANGED <<active_streams, now, handlers, started, fed, retry,
                   run, sequential, call>>

\* Lines 687-704: the frames of a batch, from frame i (0-based) on; each frame
\* goes to the stream f"{stream_id}_batch_{i}" and its exception is caught.
RECURSIVE BatchLoop(_, _, _, _, _)
\* Lines 696-704 for frame i, given the outcome of process_frame
BatchFrame(frames, i, results, t, r) ==
    BatchLoop(r.proc, frames, i + 1,
              Append(results, IF r.raised THEN "error" ELSE "ok"), t)

BatchLoop(proc, frames, i, results, t) ==
    IF i >= Len(frames) THEN [proc |-> proc, results |-> results]
    ELSE BatchFrame(frames, i, results, t,
                    process_frame(proc, BatchNames[i + 1], frames[i + 1], t))

\* POST /api/video/batch-process with stream_id "batch"
batch_process(frames, limit) ==
    /\ \A i \in 1..Len(frames) : FrameCount(trackers, BatchNames[i]) < limit
    /\ IF frames = <<>>
       THEN /\ response' = [op |-> "batch_process", stream_id |-> "batch",
                            status |-> "error", results |-> <<>>]
            /\ UNCHANGED <<trackers, class_counts, performance_stats>>
       ELSE \E r \in {BatchLoop(Processor, frames, 0, <<>>, now)} :
                /\ trackers' = r.proc.trackers
                /\ class_counts' = r.proc.class_counts
                /\ performance_stats' = r.proc.performance_stats
                /\ response' = [op |-> "batch_process", stream_id |-> "batch",
                                status |-> "ok", results |-> r.results]
    /\ UNCHANGED <<active_streams, now, handlers, started, fed, retry,
                   run, sequential, call>>

\* The clock advances.
Tick ==
    /\ now < MaxClock
    /\ now' = now + 1
    /\ UNCHANGED <<active_streams, trackers, class_counts, performance_stats,
                   handlers, response, started, fed, retry, run, sequential, call>>

(***************************************************************************)
(* Specification of the session table: start and stop requests, one at a   *)
(* time                                                                    *)
(***************************************************************************)
Next ==
    \/ \E s \in StreamIds, src \in SourceTypes : start_stream(s, src)
    \/ \E s \in StreamIds : stop_stream(s)

Spec == Init /\ [][Next]_vars

(***************************************************************************)
(* The same requests handled on interleaved threads (app.run with          *)
(* threaded=True, no lock anywhere in StreamManager): a thread may be      *)
(* switched out between the test of line 420 and the insertion of line     *)
(* 423, and between the test of line 435 and the deletion of line 436.     *)
(***************************************************************************)
Goto(t, pc, stream_id, source_type) ==
    handlers' = [handlers EXCEPT ![t] =
                    [pc |-> pc, stream_id |-> stream_id, source_type |-> source_type]]

\* start_stream up to and including the test of line 420
start_stream_test(t, stream_id, source_type) ==
    /\ handlers[t].pc = "idle"
    /\ IF AtCapacity(active_streams)
       THEN /\ response' = [op |-> "start", stream_id |-> stream_id, status |-> "error"]
            /\ UNCHANGED handlers
       ELSE /\ Goto(t, "add_stream_insert", stream_id, source_type)
            /\ UNCHANGED response
    /\ UNCHANGED <<active_streams, trackers, class_counts, performance_stats, now,
                   started, fed, retry, run, sequential, call>>

\* start_stream from line 423 on
start_stream_insert(t) ==
    /\ handlers[t].pc = "add_stream_insert"
    /\ active_streams' = InsertStream(active_streams, handlers[t].stream_id,
                                      handlers[t].source_type)
    /\ response' = [op |-> "start", stream_id |-> handlers[t].stream_id,
                    status |-> "started"]
    /\ started' = started \cup {handlers[t].stream_id}
    /\ handlers' = [handlers EXCEPT ![t] = IdleHandler]
    /\ UNCHANGED <<trackers, class_counts, performance_stats, now, fed, retry,
                   run, sequential, call>>

\* stop_stream up to and including the test of line 435
stop_stream_test(t, stream_id) ==
    /\ handlers[t].pc = "idle"
    /\ IF stream_id \in DOMAIN active_streams
       THEN /\ Goto(t, "remove_stream_del", stream_id, "")
            /\ UNCHANGED response
       ELSE /\ response' = [op |-> "stop", stream_id |-> stream_id, status |-> "stopped"]
            /\ UNCHANGED handlers
    /\ UNCHANGED <<active_streams, trackers, class_counts, performance_stats, now,
                   started, fed, retry, run, sequential, call>>

\* stop_stream from line 436 on; a KeyError reaches the except clause of
\* stop_stream (line 606)
stop_stream_del(t) ==
    /\ handlers[t].pc = "remove_stream_del"
    /\ LET r == DeleteStream(active_streams, handlers[t].stream_id)
       IN  /\ active_streams' = r.streams
           /\ response' = [op |-> "stop", stream_id |-> handlers[t].stream_id,
                           status |-> IF r.raised THEN "error" ELSE "stopped"]
    /\ handlers' = [handlers EXCEPT ![t] = IdleHandler]
    /\ UNCHANGED <<trackers, class_counts, performance_stats, now, started, fed, retry,
                   run, sequential, call>>

NextThreads ==
    \/ \E t \in Threads, s \in StreamIds : start_stream_test(t, s, "webcam")
    \/ \E t \in Threads : start_stream_insert(t)
    \/ \E t \in Threads, s \in StreamIds : stop_stream_test(t, s)
    \/ \E t \in Threads : stop_stream_del(t)

SpecThreads == Init /\ [][NextThreads]_vars

(***************************************************************************)
(* Specification of the sessions together with the frame handlers          *)
(***************************************************************************)
MaxStreamFrames == 2  \* frames fed to one tracker in this specification

BatchFrames == SeqsUpTo(SimpleDetectionLists, MaxBatch)

NextPipeline ==
    \/ \E s \in PipelineStreams : start_stream(s, "webcam")
    \/ \E s \in PipelineStreams : stop_stream(s)
    \/ \E s \in FrameStreams, d \in SimpleDetectionLists :
           analyze_frame(s, d, MaxStreamFrames)
    \/ \E f \in BatchFrames : batch_process(f, MaxStreamFrames)

SpecPipeline == Init /\ [][NextPipeline]_vars

(***************************************************************************)
(* Specification of one stream's tracker: the frames of stream "default"   *)
(***************************************************************************)
NextTracker ==
    \/ \E d \in DetectionLists : analyze_frame("default", d, MaxFrames)
    \/ Tick

SpecTracker == Init /\ [][NextTracker]_vars

(***************************************************************************)
(* Specification of one stream's tracker over a long run of frames: long   *)
(* enough for a track to stay unmatched for more than max_age frames       *)
(***************************************************************************)
MaxAgeFrames == 32  \* frames fed to the tracker in this specification

NextAgeing ==
    \E d \in SimpleDetectionLists : analyze_frame("default", d, MaxAgeFrames)

SpecAgeing == Init /\ [][NextAgeing]_vars

(***************************************************************************)
(* Specification of the sessions and the frames of their streams, the      *)
(* detector failing on some frames                                         *)
(***************************************************************************)
NextDetector ==
    \/ \E s \in PipelineStreams : start_stream(s, "webcam")
    \/ \E s \in PipelineStreams : stop_stream(s)
    \/ \E s \in FrameStreams, d \in SimpleDetectionLists :
           analyze_frame(s, d, MaxStreamFrames)
    \/ \E s \in FrameStreams : analyze_frame_detector_fails(s)

SpecDetector == Init /\ [][NextDetector]_vars

(***************************************************************************)
(* Frames of one stream handled on interleaved threads (app.run with       *)
(* threaded=True; analyze_frame, process_frame and update take no lock).   *)
(* A thread may be switched out between the read and the write of          *)
(* self.frame_count += 1 (line 101), between the scan of self.trackers for *)
(* a detection (lines 111-115) and the creation of its track (lines        *)
(* 121-123), and between two detections.  The local variables of update    *)
(* are fields of the thread's handler record; tracked_objects holds        *)
(* positions in self.trackers.                                             *)
(***************************************************************************)
MaxThreadFrames == 2  \* frames that arrive for the stream in this specification

ThreadDetectionLists == {<<>>, <<DetA>>, <<DetB>>, <<DetA, DetB>>}

FramePcs == {"update_store", "update_scan", "update_create", "update_return"}

\* The threads that are inside process_frame for stream s
InFlight(s) == {t \in Threads : handlers[t].pc \in FramePcs /\ handlers[t].stream_id = s}

\* History: the tracker of the stream after one more frame applied whole
SequentialAfter(stream_id, detections) ==
    [TrackerLookup(sequential, stream_id) EXCEPT
        ![stream_id] = update(@, detections, now).tracker]

\* The response of analyze_frame to the frame thread t has been handling
FrameResponse(t, status, tracked_objects) ==
    [op |-> "analyze_frame", stream_id |-> handlers[t].stream_id, status |-> status,
     detector |-> "ok",
     detections |-> handlers[t].detections, tracked_objects |-> tracked_objects]

\* Where update goes on after detection k of thread t's frame
AfterDetection(t) ==
    IF handlers[t].k + 1 > Len(handlers[t].detections)
    THEN "update_return" ELSE "update_scan"

\* analyze_frame up to the read of self.frame_count in line 101: the detector
\* has returned `detections` (lines 243-260), the stream's tracker has been
\* looked up or created (lines 263-264)
analyze_frame_begin(t, stream_id, detections, limit) ==
    /\ handlers[t].pc = "idle"
    /\ FrameCount(sequential, stream_id) < limit
    /\ trackers' = TrackerLookup(trackers, stream_id)
    /\ class_counts' = CountClasses(class_counts, detections)
    /\ handlers' = [handlers EXCEPT ![t] =
                       [pc |-> "update_store", stream_id |-> stream_id,
                        source_type |-> "", detections |-> detections, k |-> 1,
                        frame_count |-> FrameCount(trackers, stream_id),
                        tracked_objects |-> <<>>]]
    /\ sequential' = SequentialAfter(stream_id, detections)
    /\ run' = RunAfter(stream_id, detections)
    /\ fed' = IF stream_id \in DOMAIN active_streams THEN fed \cup {stream_id} ELSE fed
    /\ UNCHANGED <<active_streams, performance_stats, now, response, started, retry, call>>

\* Line 101, the write: self.frame_count = (the value read) + 1
update_store(t) ==
    /\ handlers[t].pc = "update_store"
    /\ trackers' = [trackers EXCEPT ![handlers[t].stream_id].frame_count =
                       handlers[t].frame_count + 1]
    /\ handlers' = [handlers EXCEPT ![t].pc =
                       IF handlers[t].detections = <<>>
                       THEN "update_return" ELSE "update_scan"]
    /\ UNCHANGED <<active_streams, class_counts, performance_stats, now, response,
                   started, fed, retry, run, sequential, call>>

\* Lines 108-119 for detection k: the scan of self.trackers, and the update
\* of the best match when there is one.  An exception leaves update and
\* process_frame and is answered 500 (line 560).
update_scan(t) ==
    /\ handlers[t].pc = "update_scan"
    /\ \E scan \in {FindBestMatch(handlers[t].detections[handlers[t].k],
                                  trackers[handlers[t].stream_id].trackers,
                                  1, 0, ZeroIou)} :
          IF scan.raised
          THEN /\ response' = FrameResponse(t, "error", <<>>)
               /\ handlers' = [handlers EXCEPT ![t] = IdleHandler]
               /\ UNCHANGED trackers
          ELSE IF scan.best_match # 0
          THEN /\ trackers' =
                     [trackers EXCEPT
                        ![handlers[t].stream_id].trackers[scan.best_match] =
                            TrackedObjectUpdate(@, handlers[t].detections[handlers[t].k])]
               /\ handlers' =
                     [handlers EXCEPT
                        ![t].pc = AfterDetection(t),
                        ![t].k = @ + 1,
                        ![t].tracked_objects = Append(@, scan.best_match)]
               /\ UNCHANGED response
          ELSE /\ handlers' = [handlers EXCEPT ![t].pc = "update_create"]
               /\ UNCHANGED <<trackers, response>>
    /\ UNCHANGED <<active_streams, class_counts, performance_stats, now,
                   started, fed, retry, run, sequential, call>>

\* Lines 121-123 for detection k: the new track, made at the clock's value
\* and the current self.frame_count, appended to self.trackers
update_create(t) ==
    /\ handlers[t].pc = "update_create"
    /\ trackers' =
          [trackers EXCEPT
             ![handlers[t].stream_id].trackers =
                 Append(@, NewTrackedObject(handlers[t].detections[handlers[t].k],
                                            trackers[handlers[t].stream_id].frame_count,
                                            now))]
    /\ handlers' =
          [handlers EXCEPT
             ![t].pc = AfterDetection(t),
             ![t].k = @ + 1,
             ![t].tracked_objects =
                 Append(@, Len(trackers[handlers[t].stream_id].trackers) + 1)]
    /\ UNCHANGED <<active_streams, class_counts, performance_stats, now, response,
                   started, fed, retry, run, sequential, call>>

\* Lines 127-129, the rest of process_frame (lines 269-292) and the response
update_return(t) ==
    /\ handlers[t].pc = "update_return"
    /\ trackers' = [trackers EXCEPT ![handlers[t].stream_id].trackers = RemoveOld(@)]
    /\ performance_stats' =
          [total_frames |-> performance_stats.total_frames + 1,
           total_detections |->
               performance_stats.total_detections + Len(handlers[t].detections)]
    /\ response' = FrameResponse(t, "ok",
                       ConfirmedDicts(trackers[handlers[t].stream_id].trackers,
                                      handlers[t].tracked_objects))
    /\ handlers' = [handlers EXCEPT ![t] = IdleHandler]
    /\ UNCHANGED <<active_streams, class_counts, now, started, fed, retry,
                   run, sequential, call>>

NextFrameThreads ==
    \/ \E t \in Threads, d \in ThreadDetectionLists :
           analyze_frame_begin(t, "default", d, MaxThreadFrames)
    \/ \E t \in Threads : update_store(t)
    \/ \E t \in Threads : update_scan(t)
    \/ \E t \in Threads : update_create(t)
    \/ \E t \in Threads : update_return(t)
    \/ Tick

SpecFrameThreads == Init /\ [][NextFrameThreads]_vars

(***************************************************************************)
(* Specification of ObjectTracker.update as a function of the tracker it   *)
(* is called on: the first state draws the tracker of stream "default"     *)
(* from the trackers that the methods of TrackedObject build (a track made *)
(* by __init__ at frame 1 and then updated hits - 1 times), and the frames *)
(* apply update to it.                                                     *)
(***************************************************************************)
MaxUpdateFrames == 2  \* update calls on the drawn tracker

\* TrackedObject(detection, 1) after hits - 1 calls of its update(detection)
RECURSIVE TrackWithHits(_, _)
TrackWithHits(detection, hits) ==
    IF hits <= 1 THEN NewTrackedObject(detection, 1, 0)
    ELSE TrackedObjectUpdate(TrackWithHits(detection, hits - 1), detection)

\* self.trackers of the drawn tracker: no track, a track of one of the two
\* objects DetA and DetB, or a track of each
DrawnTrackLists ==
    {<<>>}
      \cup {<<TrackWithHits(d, h)>> : d \in {DetA, DetB}, h \in 1..min_hits}
      \cup {<<TrackWithHits(DetA, h1), TrackWithHits(DetB, h2)>> :
               h1 \in 1..min_hits, h2 \in 1..min_hits}

InitUpdate ==
    /\ active_streams = <<>>
    /\ trackers \in {[s \in {"default"} |-> [trackers |-> objs, frame_count |-> min_hits]] :
                        objs \in DrawnTrackLists}
    /\ class_counts = [c \in ClassNames |-> 0]
    /\ performance_stats = [total_frames |-> 0, total_detections |-> 0]
    /\ now = 0
    /\ handlers = [t \in Threads |-> IdleHandler]
    /\ response = NoResponse
    /\ started = {}
    /\ fed = {}
    /\ retry = NoRetry
    /\ run = <<>>
    /\ sequential = <<>>
    /\ call = NoCall

NextUpdate ==
    \E d \in DetectionLists : analyze_frame("default", d, min_hits + MaxUpdateFrames)

SpecUpdate == InitUpdate /\ [][NextUpdate]_vars

(***************************************************************************)
(* Specification of _calculate_iou as a function of two boxes              *)
(***************************************************************************)
MaxCoord == 3  \* the coordinates of a box are 0..MaxCoord

\* The valid boxes (x1, y1, x2, y2): x2 > x1 and y2 > y1
ValidBoxes ==
    {b \in (0..MaxCoord) \X (0..MaxCoord) \X (0..MaxCoord) \X (0..MaxCoord) :
        b[3] > b[1] /\ b[4] > b[2]}

\* A call of self._calculate_iou(box1, box2); a behaviour makes one call (the
\* function reads and writes nothing but its arguments).
Call_calculate_iou(box1, box2) ==
    /\ call = NoCall
    /\ call' = [fn |-> "_calculate_iou", box1 |-> box1, box2 |-> box2,
                value |-> _calculate_iou(box1, box2)]
    /\ UNCHANGED <<active_streams, trackers, class_counts, performance_stats, now,
                   handlers, response, started, fed, retry, run, sequential>>

NextIou == \E box1 \in ValidBoxes, box2 \in ValidBoxes : Call_calculate_iou(box1, box2)

SpecIou == Init /\ [][NextIou]_vars

(***************************************************************************)
(* Specification of _match_brand_colors as a function of two colour lists  *)
(***************************************************************************)
MaxColors == 2  \* colours of one list

\* Black, white, and the two colours of the rule 'pepsi', of which the
\* second is also the first of 'coca_cola'
Colors == {<<0, 0, 0>>, <<255, 255, 255>>, <<0, 50, 153>>, <<220, 20, 60>>}
ColorLists == SeqsUpTo(Colors, MaxColors) \ {<<>>}

\* A call of self._match_brand_colors(image_colors, brand_colors); a
\* behaviour makes one call (the function reads and writes nothing but its
\* arguments).
Call_match_brand_colors(image_colors, brand_colors) ==
    /\ call = NoCall
    /\ call' = [fn |-> "_match_brand_colors", image_colors |-> image_colors,
                brand_colors |-> brand_colors,
                value |-> _match_brand_colors(image_colors, brand_colors)]
    /\ UNCHANGED <<active_streams, trackers, class_counts, performance_stats, now,
                   handlers, response, started, fed, retry, run, sequential>>

NextColors ==
    \E image_colors \in ColorLists, brand_colors \in ColorLists :
        Call_match_brand_colors(image_colors, brand_colors)

SpecColors == Init /\ [][NextColors]_vars

(***************************************************************************)
(* TrackedObject driven through its methods: one object is constructed    *)
(* from a detection and then updated with further detections.              *)
(***************************************************************************)
MaxTrackHits == 32  \* detections given to one TrackedObject
MaxRare == 1        \* of which at most MaxRare are not DetA

\* The number of entries of a sequence of detections that differ from DetA
Rare(args) == Cardinality({i \in 1..Len(args) : args[i] # DetA})

\* TrackedObject(detection, 1) followed by to_dict()
Call_TrackedObject(detection) ==
    /\ call = NoCall
    /\ LET obj == NewTrackedObject(detection, 1, 0)
       IN  call' = [fn |-> "TrackedObject", obj |-> obj, args |-> <<detection>>,
                    dict |-> to_dict(obj)]
    /\ UNCHANGED <<active_streams, trackers, class_counts, performance_stats, now,
                   handlers, response, started, fed, retry, run, sequential>>

\* obj.update(detection) followed by to_dict()
Call_TrackedObject_update(detection) ==
    /\ call.fn = "TrackedObject"
    /\ Len(call.args) < MaxTrackHits
    /\ Rare(Append(call.args, detection)) <= MaxRare
    /\ LET obj == TrackedObjectUpdate(call.obj, detection)
       IN  call' = [call EXCEPT !.obj = obj, !.args = Append(@, detection),
                                !.dict = to_dict(obj)]
    /\ UNCHANGED <<active_streams, trackers, class_counts, performance_stats, now,
                   handlers, response, started, fed, retry, run, sequential>>

NextTrackedObject ==
    \E detection \in {DetA, DetB} :
        \/ Call_TrackedObject(detection)
        \/ Call_TrackedObject_update(detection)

SpecTrackedObject == Init /\ [][NextTrackedObject]_vars

(***************************************************************************)
(* AdvancedYOLOProcessor._detect_brands                                    *)
(***************************************************************************)
\* self.brand_rules in the order of the dict, and the 'colors' and 'shapes'
\* of each rule
Brands == <<"coca_cola", "pepsi", "redbull", "monster">>

brand_rules ==
    [brand \in {"coca_cola", "pepsi", "redbull", "monster"} |->
        CASE brand = "coca_cola" ->
               [colors |-> <<(<<220, 20, 60>>), (<<255, 255, 255>>)>>,
                shapes |-> {"bottle", "can"}]
          [] brand = "pepsi" ->
               [colors |-> <<(<<0, 50, 153>>), (<<220, 20, 60>>)>>,
                shapes |-> {"bottle", "can"}]
          [] brand = "redbull" ->
               [colors |-> <<(<<0, 45, 156>>), (<<255, 209, 0>>)>>,
                shapes |-> {"can"}]
          [] brand = "monster" ->
               [colors |-> <<(<<0, 166, 81>>), (<<0, 0, 0>>)>>,
                shapes |-> {"can"}]]

\* Line 314: color_match > 0.6. With color_match = 1 - sqrt(n / MaxDistance2)
\* this is sqrt(n / MaxDistance2) < 0.4, that is n < 0.16 * MaxDistance2.
AboveBrandThreshold(color_match) == 100 * color_match < 16 * MaxDistance2

\* Lines 311-321: the loop over self.brand_rules from the i-th rule on, for
\* one detection with the dominant colours of its region
RECURSIVE RulesLoop(_, _, _, _)
RulesLoop(detection, dominant_colors, i, brand_detections) ==
    IF i > Len(Brands) THEN brand_detections
    ELSE LET brand == Brands[i]
             color_match == _match_brand_colors(dominant_colors, brand_rules[brand].colors)
         IN  RulesLoop(detection, dominant_colors, i + 1,
                 IF AboveBrandThreshold(color_match)
                 THEN Append(brand_detections,
                             [brand |-> brand,
                              confidence |-> color_match,
                              bbox |-> detection.bbox,
                              detection_method |-> "color_analysis",
                              object_type |-> detection.class_name])
                 ELSE brand_detections)

\* Lines 302-323: the loop over the detections from the k-th on. rois[k] is
\* what _extract_dominant_colors returns for the region of the k-th
\* detection, and <<>> when that region is empty (roi.size = 0).
RECURSIVE DetectLoop(_, _, _, _)
DetectLoop(detections, rois, k, brand_detections) ==
    IF k > Len(detections) THEN brand_detections
    ELSE DetectLoop(detections, rois, k + 1,
             IF /\ detections[k].class_name \in {"bottle", "can", "cup"}
                /\ rois[k] # <<>>
             THEN RulesLoop(detections[k], rois[k], 1, brand_detections)
             ELSE brand_detections)

_detect_brands(detections, rois) == DetectLoop(detections, rois, 1, <<>>)

MaxBrandDetections == 2  \* detections of one call of _detect_brands

\* A detection of each of four classes, in one place
BrandObjects ==
    {[bbox |-> <<0, 0, 10, 10>>, confidence |-> 90, class_id |-> 39, class_name |-> "bottle"],
     [bbox |-> <<0, 0, 10, 10>>, confidence |-> 90, class_id |-> 41, class_name |-> "cup"],
     [bbox |-> <<0, 0, 10, 10>>, confidence |-> 90, class_id |-> 80, class_name |-> "can"],
     [bbox |-> <<0, 0, 10, 10>>, confidence |-> 90, class_id |-> 0, class_name |-> "person"]}

\* A call of self._detect_brands(frame, detections); a behaviour makes one
\* call (the function reads self.brand_rules and its arguments and writes
\* nothing).
Call_detect_brands(detections, rois) ==
    /\ call = NoCall
    /\ Len(rois) = Len(detections)
    /\ call' = [fn |-> "_detect_brands", detections |-> detections, rois |-> rois,
                value |-> _detect_brands(detections, rois)]
    /\ UNCHANGED <<active_streams, trackers, class_counts, performance_stats, now,
                   handlers, response, started, fed, retry, run, sequential>>

NextBrands ==
    \E detections \in SeqsUpTo(BrandObjects, MaxBrandDetections),
       rois \in SeqsUpTo(ColorLists \cup {<<>>}, MaxBrandDetections) :
        Call_detect_brands(detections, rois)

SpecBrands == Init /\ [][NextBrands]_vars

(***************************************************************************)
(* Frames of one stream whose detector results include a box of            *)
(* confidence below CONFIDENCE_THRESHOLD and a box without area: the       *)
(* detector is asked for conf=CONFIDENCE_THRESHOLD (line 243) but what it  *)
(* returns is outside the program.                                         *)
(***************************************************************************)
CONFIDENCE_THRESHOLD == 50  \* 0.5 in hundredths

DetLow == [bbox |-> <<20, 20, 30, 30>>, confidence |-> 30, class_id |-> 0, class_name |-> "person"]
DetFlat == [bbox |-> <<5, 5, 5, 15>>, confidence |-> 90, class_id |-> 39, class_name |-> "bottle"]
RawDetectionLists == SeqsUpTo({DetA, DetLow, DetFlat}, MaxDetections)

NextRawDetector ==
    \/ \E d \in RawDetectionLists : analyze_frame("default", d, MaxFrames)
    \/ Tick

SpecRawDetector == Init /\ [][NextRawDetector]_vars

(***************************************************************************)
(* process_frame, lines 234-240: the size the frame is resized to          *)
(***************************************************************************)
MAX_RESOLUTION == <<1920, 1080>>

\* The products d * (m / v) of the frame sizes below whose float64 value
\* lies under the integer d * m / v, so that int() yields one less:
\* 2140 * (1080 / 2140) = 1079.9999999999998
RoundedBelow == {<<2140, 1080, 2140>>}

\* int(d * scale) for scale = m / v, both operations in float64: the floor
\* of the exact quotient except for the products of RoundedBelow
IntOfScaled(d, m, v) ==
    IF <<d, m, v>> \in RoundedBelow THEN (d * m) \div v - 1 ELSE (d * m) \div v

\* Lines 236-239: <<new_width, new_height>>, the frame's own size when the
\* condition of line 236 is false. scale is MAX_RESOLUTION[0] / width when
\* that is the smaller quotient, MAX_RESOLUTION[1] / height otherwise.
Resize(width, height) ==
    IF width > MAX_RESOLUTION[1] \/ height > MAX_RESOLUTION[2]
    THEN IF MAX_RESOLUTION[1] * height <= MAX_RESOLUTION[2] * width
         THEN <<IntOfScaled(width, MAX_RESOLUTION[1], width),
                IntOfScaled(height, MAX_RESOLUTION[1], width)>>
         ELSE <<IntOfScaled(width, MAX_RESOLUTION[2], height),
                IntOfScaled(height, MAX_RESOLUTION[2], height)>>
    ELSE <<width, height>>

\* Frame sizes: the smallest, and those around MAX_RESOLUTION and its double
FrameWidths == {1, 2, 3, 1919, 1920, 1921, 2140, 2560, 3839, 3840, 3841, 4096}
FrameHeights == {1, 2, 3, 1079, 1080, 1081, 1440, 2140, 2159, 2160, 2161, 4320}

\* Lines 235-240 for a frame of the given size; a behaviour makes one call
Call_resize(width, height) ==
    /\ call = NoCall
    /\ call' = [fn |-> "resize", width |-> width, height |-> height,
                new_width |-> Resize(width, height)[1],
                new_height |-> Resize(width, height)[2]]
    /\ UNCHANGED <<active_streams, trackers, class_counts, performance_stats, now,
                   handlers, response, started, fed, retry, run, sequential>>

NextResize == \E width \in FrameWidths, height \in FrameHeights : Call_resize(width, height)

SpecResize == Init /\ [][NextResize]_vars

(***************************************************************************)
(* Frames of different streams handled by concurrent request threads       *)
(* (app.run(threaded=True), no lock): the statements of process_frame that *)
(* read and write the processor's shared fields, one step each.  A frame   *)
(* is taken up for a stream only while no other thread handles a frame of  *)
(* that stream.                                                            *)
(***************************************************************************)
MaxMetricFrames == 2  \* frames that arrive for one stream in this specification

MetricPcs == {"class_counts_read", "class_counts_write", "tracker_update",
              "total_frames_read", "total_frames_write",
              "total_detections_read", "total_detections_write"}

\* History: the calls of process_frame that returned, the detections they
\* returned in all, and the calls that raised
NoCalls == [fn |-> "process_frame", completed |-> 0, detections |-> 0, raised |-> 0]
Calls == IF call = NoCall THEN NoCalls ELSE call

\* Variant: one tracker state shared by the streams
StoreTrackerShared(trks, stream_id, tracker) == [k \in DOMAIN trks |-> tracker]

\* Line 266, the store of the stream's tracker state after update
StoreTracker(trks, stream_id, tracker) == [trks EXCEPT ![stream_id] = tracker]

\* Lines 243-256: the detector has returned `detections`
process_frame_detect(t, stream_id, detections, limit) ==
    /\ handlers[t].pc = "idle"
    /\ \A u \in Threads : handlers[u].pc \in MetricPcs => handlers[u].stream_id # stream_id
    /\ FrameCount(trackers, stream_id) < limit
    /\ handlers' = [handlers EXCEPT ![t] =
                       [pc |-> IF detections = <<>> THEN "tracker_update"
                               ELSE "class_counts_read",
                        stream_id |-> stream_id, source_type |-> "",
                        detections |-> detections, k |-> 1, value |-> 0]]
    /\ UNCHANGED <<active_streams, trackers, class_counts, performance_stats, now,
                   response, started, fed, retry, run, sequential, call>>

\* Line 260 for detection k, the read of self.class_counts[class_name]
class_counts_read(t) ==
    /\ handlers[t].pc = "class_counts_read"
    /\ handlers' = [handlers EXCEPT
                       ![t].pc = "class_counts_write",
                       ![t].value = class_counts[handlers[t].detections[handlers[t].k].class_name]]
    /\ UNCHANGED <<active_streams, trackers, class_counts, performance_stats, now,
                   response, started, fed, retry, run, sequential, call>>

\* Line 260 for detection k, the write of the value read plus 1
class_counts_write(t) ==
    /\ handlers[t].pc = "class_counts_write"
    /\ class_counts' = [class_counts EXCEPT
                           ![handlers[t].detections[handlers[t].k].class_name] =
                               handlers[t].value + 1]
    /\ handlers' = [handlers EXCEPT
                       ![t].pc = IF handlers[t].k + 1 > Len(handlers[t].detections)
                                 THEN "tracker_update" ELSE "class_counts_read",
                       ![t].k = @ + 1,
                       ![t].value = 0]
    /\ UNCHANGED <<active_streams, trackers, performance_stats, now,
                   response, started, fed, retry, run, sequential, call>>

\* Lines 263-266: the stream's tracker is looked up or created and updated
\* with the frame's detections.  An exception of update leaves process_frame
\* (line 294) and is answered 500 (line 560).
tracker_update(t) ==
    /\ handlers[t].pc = "tracker_update"
    /\ \E u \in {update(TrackerLookup(trackers, handlers[t].stream_id)[handlers[t].stream_id],
                        handlers[t].detections, now)} :
          /\ trackers' = StoreTracker(TrackerLookup(trackers, handlers[t].stream_id),
                                      handlers[t].stream_id, u.tracker)
          /\ IF u.raised
             THEN /\ response' = [op |-> "analyze_frame",
                                  stream_id |-> handlers[t].stream_id,
                                  status |-> "error", detector |-> "ok",
                                  detections |-> handlers[t].detections,
                                  tracked_objects |-> <<>>]
                  /\ handlers' = [handlers EXCEPT ![t] = IdleHandler]
                  /\ call' = [Calls EXCEPT !.raised = @ + 1]
             ELSE /\ handlers' = [handlers EXCEPT ![t].pc = "total_frames_read"]
                  /\ UNCHANGED <<response, call>>
    /\ UNCHANGED <<active_streams, class_counts, performance_stats, now,
                   started, fed, retry, run, sequential>>

\* Line 274, the read of self.performance_stats['total_frames']
total_frames_read(t) ==
    /\ handlers[t].pc = "total_frames_read"
    /\ handlers' = [handlers EXCEPT ![t].pc = "total_frames_write",
                                    ![t].value = performance_stats.total_frames]
    /\ UNCHANGED <<active_streams, trackers, class_counts, performance_stats, now,
                   response, started, fed, retry, run, sequential, call>>

\* Line 274, the write of the value read plus 1
total_frames_write(t) ==
    /\ handlers[t].pc = "total_frames_write"
    /\ performance_stats' = [performance_stats EXCEPT
                                !.total_frames = handlers[t].value + 1]
    /\ handlers' = [handlers EXCEPT ![t].pc = "total_detections_read", ![t].value = 0]
    /\ UNCHANGED <<active_streams, trackers, class_counts, now,
                   response, started, fed, retry, run, sequential, call>>

\* Line 275, the read of self.performance_stats['total_detections']
total_detections_read(t) ==
    /\ handlers[t].pc = "total_detections_read"
    /\ handlers' = [handlers EXCEPT ![t].pc = "total_detections_write",
                                    ![t].value = performance_stats.total_detections]
    /\ UNCHANGED <<active_streams, trackers, class_counts, performance_stats, now,
                   response, started, fed, retry, run, sequential, call>>

\* Line 275, the write of the value read plus len(detections); the rest of
\* process_frame (lines 277-292) and the response
total_detections_write(t) ==
    /\ handlers[t].pc = "total_detections_write"
    /\ performance_stats' = [performance_stats EXCEPT
                                !.total_detections =
                                    handlers[t].value + Len(handlers[t].detections)]
    /\ response' = [op |-> "analyze_frame", stream_id |-> handlers[t].stream_id,
                    status |-> "ok", detector |-> "ok",
                    detections |-> handlers[t].detections,
                    tracked_objects |-> <<>>]
    /\ call' = [Calls EXCEPT !.completed = @ + 1,
                             !.detections = @ + Len(handlers[t].detections)]
    /\ handlers' = [handlers EXCEPT ![t] = IdleHandler]
    /\ UNCHANGED <<active_streams, trackers, class_counts, now,
                   started, fed, retry, run, sequential>>

NextMetrics ==
    \/ \E t \in Threads, s \in PipelineStreams, d \in ThreadDetectionLists :
           process_frame_detect(t, s, d, MaxMetricFrames)
    \/ \E t \in Threads : class_counts_read(t)
    \/ \E t \in Threads : class_counts_write(t)
    \/ \E t \in Threads : tracker_update(t)
    \/ \E t \in Threads : total_frames_read(t)
    \/ \E t \in Threads : total_frames_write(t)
    \/ \E t \in Threads : total_detections_read(t)
    \/ \E t \in Threads : total_detections_write(t)

SpecMetrics == Init /\ [][NextMetrics]_vars

MaxIsolationFrames == 1  \* frames that arrive for one stream in this specification

\* Sessions started and stopped while frames of different streams are
\* handled by concurrent threads
NextIsolation ==
    \/ \E s \in PipelineStreams : start_stream(s, "webcam")
    \/ \E s \in PipelineStreams : stop_stream(s)
    \/ \E t \in Threads, s \in PipelineStreams, d \in SimpleDetectionLists :
           process_frame_detect(t, s, d, MaxIsolationFrames)
    \/ \E t \in Threads : class_counts_read(t)
    \/ \E t \in Threads : class_counts_write(t)
    \/ \E t \in Threads : tracker_update(t)
    \/ \E t \in Threads : total_frames_read(t)
    \/ \E t \in Threads : total_frames_write(t)
    \/ \E t \in Threads : total_detections_read(t)
    \/ \E t \in Threads : total_detections_write(t)

SpecIsolation == Init /\ [][NextIsolation]_vars

(***************************************************************************)
(* Properties                                                              *)
(***************************************************************************)
NumActive(streams) == Cardinality(DOMAIN streams)

\* The tracks of stream s in the tracker table trks, none when s has no tracker
TracksOf(trks, s) == IF s \in DOMAIN trks THEN trks[s].trackers ELSE <<>>

\* The hits of the track at position i of objs, 0 when there is none yet.
\* A position names the same track before and after a step: update only
\* appends to self.trackers, and line 127 keeps the order of what it keeps.
HitsAt(objs, i) == IF i <= Len(objs) THEN objs[i].hits ELSE 0

\* The step feeds one frame to the tracker of stream s (update counts every
\* call in frame_count, line 101).
FrameStep(s) ==
    /\ s \in DOMAIN trackers'
    /\ response'.op = "analyze_frame"
    /\ response'.stream_id = s
    /\ trackers'[s].frame_count = FrameCount(trackers, s) + 1

\* C1: after any sequence of start and stop requests the number of active
\* sessions is at most MAX_CONCURRENT_STREAMS, and a start issued while
\* MAX_CONCURRENT_STREAMS sessions are active is refused and adds no session.
C1_AdmissionCap ==
    [][ /\ NumActive(active_streams') <= MAX_CONCURRENT_STREAMS
        /\ (response'.op = "start"
              /\ NumActive(active_streams) = MAX_CONCURRENT_STREAMS)
             => (response'.status = "error" /\ active_streams' = active_streams)
      ]_vars

C1_Witness ==
    /\ response.op = "start"
    /\ response.status = "error"
    /\ NumActive(active_streams) = MAX_CONCURRENT_STREAMS

\* C2: once a start has been refused at capacity, stopping any active session
\* frees a slot at once (fewer than MAX_CONCURRENT_STREAMS sessions remain),
\* and the retry of the refused start is then admitted.
C2_RetryAfterStop ==
    [][ /\ retry'.phase = "freed"
             => NumActive(active_streams') < MAX_CONCURRENT_STREAMS
        /\ (retry.phase = "freed" /\ response'.op = "start"
              /\ response'.stream_id = retry.stream_id)
             => (response'.status = "started"
                   /\ retry.stream_id \in DOMAIN active_streams')
      ]_vars

C2_Witness ==
    /\ retry.phase = "admitted"
    /\ response.op = "start"
    /\ response.stream_id = retry.stream_id
    /\ response.status = "started"
    /\ retry.stream_id \in DOMAIN active_streams
    /\ NumActive(active_streams) = MAX_CONCURRENT_STREAMS

\* C3: with start requests handled on interleaved threads the number of
\* active sessions still never exceeds MAX_CONCURRENT_STREAMS.
C3_HardCapUnderThreads == NumActive(active_streams) <= MAX_CONCURRENT_STREAMS

\* C4: after stop(streamId) has returned for a stream that had been started
\* and fed frames, neither a session nor a tracker of that stream exists.
C4_StopDestroysTracker ==
    (response.op = "stop" /\ response.status = "stopped"
       /\ response.stream_id \in fed)
      => /\ response.stream_id \notin DOMAIN active_streams
         /\ response.stream_id \notin DOMAIN trackers

\* C5: stop never fails and leaves no session of the stream; for a stream
\* that has no session it leaves the session table as it was, so a second
\* stop changes nothing.
C5_StopIdempotent ==
    [][ response'.op = "stop"
          => /\ response'.status = "stopped"
             /\ response'.stream_id \notin DOMAIN active_streams'
             /\ response'.stream_id \notin DOMAIN active_streams
                  => active_streams' = active_streams
      ]_vars

\* stop answered while MAX_CONCURRENT_STREAMS sessions are active: the stream
\* it named had no session (a removal would have left fewer)
C5_Witness ==
    /\ response.op = "stop"
    /\ response.status = "stopped"
    /\ NumActive(active_streams) = MAX_CONCURRENT_STREAMS

\* C6: a start that admits a stream which was started, fed frames and
\* stopped before gives it an active session and a fresh tracker: no tracker
\* of the earlier session, or one with no tracks and frame index 0.
C6_StartGivesFreshTracker ==
    [][ \A s \in PipelineStreams :
          (s \in fed /\ s \notin DOMAIN active_streams
             /\ s \in DOMAIN active_streams')
            => /\ active_streams'[s].status = "active"
               /\ s \in DOMAIN trackers' => trackers'[s] = NewObjectTracker
      ]_vars

\* C7: processing a frame for a stream that was never started is an error
\* and creates no tracker for it.
C7_UnknownStreamIsError ==
    (response.op = "analyze_frame" /\ response.stream_id \notin started)
      => /\ response.status = "error"
         /\ response.stream_id \notin DOMAIN trackers

\* C8: every tracker belongs to an active session, so there are never more
\* than MAX_CONCURRENT_STREAMS trackers.
C8_TrackersOfActiveSessions ==
    /\ DOMAIN trackers \subseteq DOMAIN active_streams
    /\ Cardinality(DOMAIN trackers) <= MAX_CONCURRENT_STREAMS

C10_HitsCountMatches ==
    [][ \A s \in DOMAIN trackers :
          LET objs == trackers[s].trackers
              after == trackers'[s].trackers
              detections == response'.detections
          IN  /\ \A i \in 1..Len(objs) :
                    /\ objs[i].hits >= 1
                    /\ i <= Len(after)
                    /\ after[i].hits >= objs[i].hits
              /\ (FrameStep(s) /\ Len(objs) = 1 /\ Len(detections) <= 1)
                   => IF /\ Len(detections) = 1
                         /\ AboveMatchThreshold(
                                _calculate_iou(detections[1].bbox, objs[1].bbox))
                      THEN after[1].hits = objs[1].hits + 1
                      ELSE after[1].hits = objs[1].hits
      ]_vars

\* The track of objs that track obj of an earlier list has become, by
\* position (see HitsAt); the fields no update changes identify it.
SameTrack(a, b) == a.id = b.id /\ a.first_seen = b.first_seen
                     /\ a.class_name = b.class_name

\* C11: a track has age 0 right after its creation and after a match, and
\* its age grows by exactly 1 on every frame (update call) in which it is not
\* matched, so that after k unmatched frames in a row its age is k.  A match
\* is what adds 1 to hits (TrackedObject.update).
C11_AgeCountsUnmatchedFrames ==
    [][ \A s \in DOMAIN trackers' :
          FrameStep(s) =>
            LET objs == TracksOf(trackers, s)
                after == trackers'[s].trackers
            IN  /\ \A i \in 1..Len(objs) :
                      /\ i <= Len(after)
                      /\ IF after[i].hits = objs[i].hits
                         THEN after[i].age = objs[i].age + 1
                         ELSE after[i].age = 0
                /\ \A i \in (Len(objs) + 1)..Len(after) : after[i].age = 0
      ]_vars

\* C12: a track leaves the active set exactly when its age exceeds max_age:
\* a track created at frame N and never matched again (hits still 1) is in
\* the active set after every update through frame N + max_age and is absent
\* after the update of frame N + max_age + 1.
C12_RemovedAfterMaxAge ==
    [][ \A s \in DOMAIN trackers' :
          FrameStep(s) =>
            LET objs == TracksOf(trackers, s)
                after == trackers'[s].trackers
                frame == trackers'[s].frame_count
            IN  \A i \in 1..Len(objs) :
                   LET kept == {j \in 1..Len(after) : SameTrack(after[j], objs[i])}
                   IN  (objs[i].hits = 1 /\ \A j \in kept : after[j].hits = 1)
                         => (kept # {} <=> frame - objs[i].first_seen <= max_age)
      ]_vars

\* C13: a track is in the return value of update only when its hits is at
\* least min_hits, and first at the frame where its hits reaches min_hits:
\* when every frame a stream's tracker has seen showed the same one object
\* (frames N, N+1, ... match the one track), the request succeeds, the result
\* is empty while fewer than min_hits frames have come, and from then on it
\* holds that one track with hits equal to the number of frames.
C13_VisibleAtMinHits ==
    /\ (response.op = "analyze_frame" /\ response.status = "ok")
         => \A i \in 1..Len(response.tracked_objects) :
               response.tracked_objects[i].hits >= min_hits
    /\ \A s \in DOMAIN run :
          (response.op = "analyze_frame" /\ response.stream_id = s
             /\ run[s].n >= 1 /\ trackers[s].frame_count = run[s].n)
            => /\ response.status = "ok"
               /\ IF run[s].n >= min_hits
                  THEN /\ Len(response.tracked_objects) = 1
                       /\ response.tracked_objects[1].hits = run[s].n
                  ELSE response.tracked_objects = <<>>

\* The number of positions of the sequence seq that hold x
Count(seq, x) == Cardinality({i \in 1..Len(seq) : seq[i] = x})

\* The tracks of objs with hits at least min_hits, as update exposes them
RECURSIVE ConfirmedTracks(_)
ConfirmedTracks(objs) ==
    IF objs = <<>> THEN <<>>
    ELSE IF Head(objs).hits >= min_hits
         THEN <<to_dict(Head(objs))>> \o ConfirmedTracks(Tail(objs))
         ELSE ConfirmedTracks(Tail(objs))

FreshTrackOf(obj, d, f) ==
    /\ obj.bbox = d.bbox
    /\ obj.hits = 1
    /\ obj.age = 0
    /\ obj.first_seen = f
    /\ obj.last_seen = f

\* The boxes a and b overlap with IoU above the match threshold 0.3
Overlaps(a, b) == AboveMatchThreshold(_calculate_iou(a, b))

\* C15: a detection is associated with an existing track only if their IoU
\* is strictly above 0.3: a track matched in a frame overlaps a detection of
\* the frame that much.  A detection that overlaps no track the tracker held
\* and no other detection of its frame with IoU above 0.3 gets a new track
\* with hits = 1, age = 0 and first_seen = last_seen = the frame index; so
\* two detections of one frame with IoU at most 0.3, such as (0,0,10,10) and
\* (5,5,15,15), become two tracks.
C15_NewTrackBelowThreshold ==
    [][ \A s \in DOMAIN trackers' :
          FrameStep(s) =>
            LET objs == TracksOf(trackers, s)
                after == trackers'[s].trackers
                frame == trackers'[s].frame_count
                detections == response'.detections
            IN  /\ \A i \in 1..Len(objs) :
                      (i <= Len(after) /\ after[i].hits > objs[i].hits)
                        => \E k \in 1..Len(detections) :
                              Overlaps(detections[k].bbox, objs[i].bbox)
                /\ \A k \in 1..Len(detections) :
                      (/\ \A i \in 1..Len(objs) :
                             ~Overlaps(detections[k].bbox, objs[i].bbox)
                       /\ \A j \in 1..Len(detections) \ {k} :
                             ~Overlaps(detections[k].bbox, detections[j].bbox))
                        => \E p \in (Len(objs) + 1)..Len(after) :
                              FreshTrackOf(after[p], detections[k], frame)
      ]_vars

\* Two fractions with positive denominators are the same number
SameFraction(a, b) == a[1] * b[2] = b[1] * a[2]

\* C16: for valid boxes A and B, iou(A, B) = iou(B, A); the intersection
\* area is at least 0 and at most the union area and the union area is
\* positive, so the value lies in [0, 1]; the value is 1 when A = B and 0
\* when the width or the height of the intersection is at most 0.
C16_IouProperties ==
    call.fn = "_calculate_iou" =>
        LET A == call.box1
            B == call.box2
            iou == call.value
            width == Min(A[3], B[3]) - Max(A[1], B[1])
            height == Min(A[4], B[4]) - Max(A[2], B[2])
        IN  /\ SameFraction(iou, _calculate_iou(B, A))
            /\ iou[2] > 0
            /\ 0 <= iou[1]
            /\ iou[1] <= iou[2]
            /\ A = B => iou[1] = iou[2]
            /\ (width <= 0 \/ height <= 0) => iou[1] = 0

\* A call on two different boxes that overlap in part: the value is strictly
\* between 0 and 1
C16_Witness ==
    /\ call.fn = "_calculate_iou"
    /\ call.box1 # call.box2
    /\ 0 < call.value[1]
    /\ call.value[1] < call.value[2]

\* The squared distances of the (image colour, brand colour) pairs
PairDistances(image_colors, brand_colors) ==
    {Distance2(image_colors[i], brand_colors[j]) :
        i \in 1..Len(image_colors), j \in 1..Len(brand_colors)}

SmallestDistance2(image_colors, brand_colors) ==
    CHOOSE d \in PairDistances(image_colors, brand_colors) :
        \A e \in PairDistances(image_colors, brand_colors) : d <= e

\* C17: the value of match(colors, brandColors) is the largest of the
\* similarities max(0, 1 - distance / (255 * sqrt(3))) of the pairs; it is
\* 1.0 exactly when some image colour is equal to some brand colour and below
\* 1.0 otherwise; it is 0.0 when the only pair is black against white, the
\* largest distance there is; and the value of a call whose smallest pair
\* distance is larger is never larger (compared with the calls on one pair).
C17_MatchIsBestPair ==
    call.fn = "_match_brand_colors" =>
        LET ic == call.image_colors
            bc == call.brand_colors
            value == call.value
            pairs == (1..Len(ic)) \X (1..Len(bc))
        IN  /\ \E p \in pairs : value = Similarity(ic[p[1]], bc[p[2]])
            /\ \A p \in pairs : SimLeq(Similarity(ic[p[1]], bc[p[2]]), value)
            /\ value = SimOne <=> \E p \in pairs : ic[p[1]] = bc[p[2]]
            /\ (\A p \in pairs : ic[p[1]] # bc[p[2]]) => SimLess(value, SimOne)
            /\ (Len(ic) = 1 /\ Len(bc) = 1 /\ Distance2(ic[1], bc[1]) = MaxDistance2)
                 => value = SimZero
            /\ \A c \in Colors, b \in Colors :
                  /\ Distance2(c, b) >= SmallestDistance2(ic, bc)
                       => SimLeq(_match_brand_colors(<<c>>, <<b>>), value)
                  /\ Distance2(c, b) <= SmallestDistance2(ic, bc)
                       => SimLeq(value, _match_brand_colors(<<c>>, <<b>>))

\* A call whose only equal pair is the first image colour and the second
\* brand colour: the value is 1.0
C17_Witness ==
    /\ call.fn = "_match_brand_colors"
    /\ Len(call.image_colors) = 2
    /\ Len(call.brand_colors) = 2
    /\ call.image_colors[1] = call.brand_colors[2]
    /\ call.image_colors[1] # call.brand_colors[1]
    /\ call.image_colors[2] # call.brand_colors[1]
    /\ call.image_colors[2] # call.brand_colors[2]
    /\ call.value = SimOne

\* C18: no two tracks that one tracker has created have the same id, also
\* when they are created for detections of one frame or of frames processed
\* within the same millisecond of the clock.  (Line 127 never removes a
\* track, so self.trackers holds every track the tracker has created.)
C18_TrackIdsUnique ==
    \A s \in DOMAIN trackers :
       \A i \in 1..Len(trackers[s].trackers), j \in 1..Len(trackers[s].trackers) :
          i # j => trackers[s].trackers[i].id # trackers[s].trackers[j].id

\* The tracks of a list without their ids (an id depends on the clock)
TracksModuloId(objs) == [i \in 1..Len(objs) |-> [objs[i] EXCEPT !.id = 0]]

\* C19: for each stream at most one process call is in flight at any time;
\* the frames are applied in the order of their arrival: when no call is in
\* flight after k frames have arrived, the tracker's frame index is k and its
\* tracks are what update makes of those k frames applied one after another.
C19_OneFrameInFlight ==
    \A s \in DOMAIN sequential :
       /\ Cardinality(InFlight(s)) <= 1
       /\ InFlight(s) = {}
            => /\ s \in DOMAIN trackers
               /\ trackers[s].frame_count = sequential[s].frame_count
               /\ TracksModuloId(trackers[s].trackers)
                    = TracksModuloId(sequential[s].trackers)

\* C20: when the detector fails on a frame of a stream with an active
\* session and a tracker that holds tracks, the frame is dropped (no
\* detection of it is counted), the stream's tracker ages every track by one
\* frame as update with no detections is to do (the frame index and every
\* age grow by 1, nothing else changes), the session stays active, and the
\* next frame of the stream is processed as usual.
C20_DetectorFailureAgesTracks ==
    [][ \A s \in DOMAIN active_streams :
          /\ (response'.op = "analyze_frame" /\ response'.stream_id = s
                /\ response'.detector = "failed" /\ TracksOf(trackers, s) # <<>>)
               => /\ class_counts' = class_counts
                  /\ active_streams' = active_streams
                  /\ s \in DOMAIN trackers'
                  /\ trackers'[s].frame_count = FrameCount(trackers, s) + 1
                  /\ Len(trackers'[s].trackers) = Len(TracksOf(trackers, s))
                  /\ \A i \in 1..Len(TracksOf(trackers, s)) :
                        trackers'[s].trackers[i] =
                            [trackers[s].trackers[i] EXCEPT !.age = @ + 1]
          /\ (response.op = "analyze_frame" /\ response.stream_id = s
                /\ response.detector = "failed"
                /\ FrameStep(s) /\ response'.detections = <<>>)
               => response'.status = "ok"
      ]_vars

\* C21: update completes and returns a list in every state of the tracker
\* that earlier update calls lead to and for every list of detections, also
\* when the tracker holds a track and the list is not empty: no frame on
\* which the detector succeeded is answered with an error.
C21_UpdateNeverRaises ==
    (response.op = "analyze_frame" /\ response.detector = "ok")
      => response.status = "ok"

\* The tracks of objs that overlap box with IoU above 0.3 and with an IoU
\* that no other track of objs exceeds
BestTracks(objs, box) ==
    {i \in 1..Len(objs) :
        /\ Overlaps(box, objs[i].bbox)
        /\ \A j \in 1..Len(objs) :
              ~IouGreater(_calculate_iou(box, objs[j].bbox),
                          _calculate_iou(box, objs[i].bbox))}

\* C22: the detections of a frame are processed in the order given, and a
\* detection is associated with the track of highest IoU among the tracks
\* no earlier detection of the frame has claimed.  For a frame of one
\* detection that overlaps some track with IoU above 0.3: one of the tracks
\* of highest IoU takes the detection (hits + 1, the detection's box) and
\* every other track is left as it was.  For a frame of two detections that
\* both overlap the tracker's only track: the first takes the track, the
\* second finds it claimed and gets a track of its own.
C22_BestUnclaimedTrack ==
    [][ \A s \in DOMAIN trackers :
          FrameStep(s) =>
            LET objs == trackers[s].trackers
                after == trackers'[s].trackers
                detections == response'.detections
            IN  /\ (Len(detections) = 1 /\ BestTracks(objs, detections[1].bbox) # {})
                     => /\ Len(after) = Len(objs)
                        /\ \E i \in BestTracks(objs, detections[1].bbox) :
                              /\ after[i].hits = objs[i].hits + 1
                              /\ after[i].bbox = detections[1].bbox
                              /\ \A j \in 1..Len(objs) \ {i} : after[j] = objs[j]
                /\ (Len(detections) = 2 /\ Len(objs) = 1
                      /\ Overlaps(detections[1].bbox, objs[1].bbox)
                      /\ Overlaps(detections[2].bbox, objs[1].bbox))
                     => /\ Len(after) = 2
                        /\ after[1].hits = objs[1].hits + 1
                        /\ after[1].bbox = detections[1].bbox
                        /\ after[2].hits = 1
                        /\ after[2].bbox = detections[2].bbox
      ]_vars

\* C23: when a detection is associated with a track in the frame with index
\* f, the track's bbox and confidence become the detection's and its
\* last_seen becomes f, whatever number of frames the track went unmatched
\* before (here: a frame of one detection that overlaps the tracker's only
\* track with IoU above 0.3); and first_seen <= last_seen <= the tracker's
\* frame index holds for every track in every state.
C23_LastSeenIsFrameOfMatch ==
    [][ \A s \in DOMAIN trackers' :
          LET objs == TracksOf(trackers, s)
              after == trackers'[s].trackers
              detections == response'.detections
          IN  /\ \A i \in 1..Len(after) :
                    /\ after[i].first_seen <= after[i].last_seen
                    /\ after[i].last_seen <= trackers'[s].frame_count
              /\ (FrameStep(s) /\ Len(objs) = 1 /\ Len(detections) = 1
                    /\ Overlaps(detections[1].bbox, objs[1].bbox))
                   => /\ Len(after) = 1
                      /\ after[1].bbox = detections[1].bbox
                      /\ after[1].confidence = detections[1].confidence
                      /\ after[1].last_seen = trackers'[s].frame_count
      ]_vars

\* The last n entries of a sequence (all of them when it has fewer)
Last(seq, n) == SubSeq(seq, Len(seq) - Min(n, Len(seq)) + 1, Len(seq))

\* C24: a track's history holds the most recent of the detections given to
\* it, in order, at most 30 of them, the oldest evicted first (its length is
\* min(hits, 30)); the trajectory that to_dict exposes is the most recent
\* min(10, length) entries of the history.
C24_HistoryIsRecent ==
    call.fn = "TrackedObject"
      => LET obj == call.obj
             args == call.args
         IN  /\ obj.hits = Len(args)
             /\ Len(obj.history) <= HISTORY_MAXLEN
             /\ Len(obj.history) = Min(obj.hits, HISTORY_MAXLEN)
             /\ obj.history = Last(args, HISTORY_MAXLEN)
             /\ Len(call.dict.trajectory) = Min(TRAJECTORY_LEN, Len(obj.history))
             /\ call.dict.trajectory = Last(obj.history, TRAJECTORY_LEN)

\* A track first given DetB and then 30 or more times DetA: DetB was evicted
C24_Witness ==
    /\ call.fn = "TrackedObject"
    /\ Len(call.args) > HISTORY_MAXLEN
    /\ call.args[1] = DetB
    /\ call.obj.history[1] = DetA
    /\ Len(call.dict.trajectory) = TRAJECTORY_LEN

\* C25: _detect_brands emits a brand for a detection only if the detection's
\* class is in the 'shapes' of the brand's rule and the colour match score
\* of the detection's region against the rule's colours exceeds 0.6; a
\* 'bottle' or a 'cup' never yields a brand whose shapes are only 'can'.
C25_BrandOnlyForPermittedClass ==
    call.fn = "_detect_brands"
      => \A e \in 1..Len(call.value) :
            LET brand == call.value[e].brand
            IN  /\ call.value[e].object_type \in brand_rules[brand].shapes
                /\ \E k \in 1..Len(call.detections) :
                      /\ call.detections[k].class_name = call.value[e].object_type
                      /\ AboveBrandThreshold(
                             _match_brand_colors(call.rois[k], brand_rules[brand].colors))

\* A detection of confidence at least CONFIDENCE_THRESHOLD and a box with
\* x2 > x1 and y2 > y1
Admissible(d) ==
    /\ d.confidence >= CONFIDENCE_THRESHOLD
    /\ d.bbox[3] > d.bbox[1]
    /\ d.bbox[4] > d.bbox[2]

\* C26: every detection that process_frame reports and passes to the
\* tracker's update has confidence at least CONFIDENCE_THRESHOLD and a box
\* with x2 > x1 and y2 > y1, whatever the detector returned: the others are
\* filtered out before association, so no track is made from them.
C26_OnlyAdmissibleDetections ==
    [][ \A s \in DOMAIN trackers' :
          FrameStep(s)
            => /\ \A k \in 1..Len(response'.detections) :
                     Admissible(response'.detections[k])
               /\ \A i \in 1..Len(trackers'[s].trackers) :
                     Admissible(trackers'[s].trackers[i])
      ]_vars

\* C27: a frame within MAX_RESOLUTION keeps its size; a frame wider or
\* higher than MAX_RESOLUTION is scaled by the one factor
\* min(maxW / width, maxH / height) = m / (width * height), never up, and its new width and height
\* are both at least 1 and within MAX_RESOLUTION.
C27_ResizeWithinBounds ==
    call.fn = "resize"
      => IF call.width <= MAX_RESOLUTION[1] /\ call.height <= MAX_RESOLUTION[2]
         THEN call.new_width = call.width /\ call.new_height = call.height
         ELSE /\ call.new_width <= call.width
              /\ call.new_height <= call.height
              /\ call.new_width >= 1 /\ call.new_width <= MAX_RESOLUTION[1]
              /\ call.new_height >= 1 /\ call.new_height <= MAX_RESOLUTION[2]
              /\ \E m \in {MAX_RESOLUTION[1] * call.height, MAX_RESOLUTION[2] * call.width} :
                    /\ m <= MAX_RESOLUTION[1] * call.height
                    /\ m <= MAX_RESOLUTION[2] * call.width
                    /\ call.new_width * call.height <= m
                    /\ call.new_width * call.height >= m - call.height
                    /\ call.new_height * call.width <= m
                    /\ call.new_height * call.width >= m - call.width

\* The sum of the per-class counts over the classes of S
RECURSIVE SumOfCounts(_, _)
SumOfCounts(counts, S) ==
    IF S = {} THEN 0
    ELSE LET c == CHOOSE x \in S : TRUE
         IN  counts[c] + SumOfCounts(counts, S \ {c})

\* C28: the processor's counters lose no update under concurrency. Once the
\* calls of process_frame that ran on different threads for different
\* streams have all ended, total_frames is the number of calls that returned
\* and total_detections the sum of their detection counts; and when none of
\* the calls raised, the per-class counts sum to total_detections.
C28_CountersLoseNoUpdate ==
    (\A t \in Threads : handlers[t].pc = "idle")
      => /\ performance_stats.total_frames = Calls.completed
         /\ performance_stats.total_detections = Calls.detections
         /\ Calls.raised = 0
              => SumOfCounts(class_counts, ClassNames) = performance_stats.total_detections

\* The stream whose frame thread t is handling in this step
SteppedStream(t) ==
    IF handlers[t].pc = "idle" THEN handlers'[t].stream_id ELSE handlers[t].stream_id

\* C29: a step of process_frame for stream A changes no other stream's
\* tracker (its tracks and its frame index) and not the session table,
\* whatever other threads are doing for other streams; it creates or removes
\* no other stream's tracker either.
C29_OtherStreamsUntouched ==
    [][ \A t \in Threads :
          handlers'[t] # handlers[t]
            => /\ active_streams' = active_streams
               /\ DOMAIN trackers' \subseteq DOMAIN trackers \cup {SteppedStream(t)}
               /\ \A B \in DOMAIN trackers \ {SteppedStream(t)} :
                     B \in DOMAIN trackers' /\ trackers'[B] = trackers[B]
      ]_vars

\* Stream s1's tracker has just taken a frame while s2 has a session and a
\* tracker with the track of its own frame
C29_Witness ==
    /\ \E t \in Threads :
          /\ handlers[t].pc = "total_frames_read"
          /\ handlers[t].stream_id = "s1"
    /\ "s2" \in DOMAIN active_streams
    /\ FrameCount(trackers, "s1") = 1
    /\ FrameCount(trackers, "s2") = 1
    /\ TracksOf(trackers, "s2") # <<>>

\* C30: a start for a stream id that already has a session never changes the
\* number of sessions, and the table holds one session per id: below
\* MAX_CONCURRENT_STREAMS sessions the call is admitted and replaces the
\* stream's session record by a new one (the others are kept), at
\* MAX_CONCURRENT_STREAMS sessions it is refused and changes nothing.
C30_RestartKeepsCount ==
    [][ (response'.op = "start" /\ response'.stream_id \in DOMAIN active_streams)
          => /\ NumActive(active_streams') = NumActive(active_streams)
             /\ DOMAIN active_streams' = DOMAIN active_streams
             /\ \A k \in DOMAIN active_streams \ {response'.stream_id} :
                   active_streams'[k] = active_streams[k]
             /\ IF NumActive(active_streams) < MAX_CONCURRENT_STREAMS
                THEN /\ response'.status = "started"
                     /\ active_streams'[response'.stream_id] =
                           [source_type |-> response'.source_type,
                            frame_count |-> 0, status |-> "active"]
                ELSE /\ response'.status = "error"
                     /\ active_streams' = active_streams
      ]_vars

\* A stream that had a session was started again, as "rtmp", and admitted,
\* while other sessions were active
C30_Witness ==
    /\ response.op = "start"
    /\ response.status = "started"
    /\ response.was_active
    /\ response.source_type = "rtmp"
    /\ active_streams[response.stream_id].source_type = "rtmp"
    /\ NumActive(active_streams) > 1

====
